---- MODULE Spec2Model ----
(***************************************************************************)
(* Solarium CPU (libscpu SolariumCPU::step and its stack helpers) together *)
(* with the memory map it drives: read-write segments, read-only segments  *)
(* and the serial input/output device.                                     *)
(***************************************************************************)
EXTENDS Integers, Sequences, FiniteSets, TLC

VARIABLES segments, build, registers, memory, input_queue, output_queue,
          allow_interrupts, image, trace, steps, patches, phase

vars == <<segments, build, registers, memory, input_queue, output_queue,
          allow_interrupts, image, trace, steps, patches, phase>>

(* ---------------------------------------------------------------- words *)

WordSize == 65536

HalfWord == 32768

\* `x as MemoryWord`: truncation of an integer to 16 bits
ToWord(x) == ((x % WordSize) + WordSize) % WordSize

\* `w as MemoryWordSigned`: the two's complement view of a word
ToSigned(w) == IF w >= HalfWord THEN w - WordSize ELSE w

(* ------------------------------------------------------------ constants *)

VECTOR_RESET == 0

STACK_POINTER_OFFSET == 2048

STACK_POINTER_MAX_SIZE == 2048

NUM_REGISTERS == 16

\* Register::ProgramCounter and Register::StackPointer as register indices
ProgramCounter == 0

StackPointer == 1

\* Register::GP(i) / Register::from_index(i): the register with index i
GP(i) == i

(* -------------------------------------------------------------- results *)

Ok == [kind |-> "Ok", arg |-> 0]

NoResult == [kind |-> "None", arg |-> 0]

\* a Rust panic (failed assert!, arithmetic overflow check): step() never returns
Panic == [kind |-> "Panic", arg |-> 0]

StackOverflow == [kind |-> "StackOverflow", arg |-> 0]

DivideByZero == [kind |-> "DivideByZero", arg |-> 0]

ModByZero == [kind |-> "ModByZero", arg |-> 0]

InterruptsNotSupported == [kind |-> "InterruptsNotSupported", arg |-> 0]

InvalidInstruction(inst) == [kind |-> "InvalidInstruction", arg |-> inst]

InvalidMemoryAccess(ind) == [kind |-> "InvalidMemoryAccess", arg |-> ind]

InvalidMemoryWrite(ind) == [kind |-> "InvalidMemoryWrite", arg |-> ind]

\* step() returned Err(e)
IsErr(res) == res.kind \notin {"Ok", "None", "Panic"}

(* ----------------------------------------------------------- memory map *)

\* memory cells are kept sparsely: an address outside DOMAIN cells holds 0
CellGet(cells, a) == IF a \in DOMAIN cells THEN cells[a] ELSE 0

CellSet(cells, a, v) ==
  IF v = 0
  THEN [x \in DOMAIN cells \ {a} |-> cells[x]]
  ELSE [x \in DOMAIN cells \cup {a} |-> IF x = a THEN v ELSE cells[x]]

\* mutant of within: the address right above the segment is answered too
within_inclusive(seg, ind) == ind >= seg.base /\ ind <= seg.base + seg.len

\* MemorySegment::within for a segment registered at base with len words
within(seg, ind) == ind >= seg.base /\ ind < seg.base + seg.len

\* MemoryMap dispatch: the (first) segment that answers the address, 0 if none
SegmentAt(segs, ind) ==
  IF \E i \in 1..Len(segs) : within(segs[i], ind)
  THEN CHOOSE i \in 1..Len(segs) :
         /\ within(segs[i], ind)
         /\ \A j \in 1..(i - 1) : ~within(segs[j], ind)
  ELSE 0

\* the ranges [base, base + len) of two segments share an address
overlaps(seg_a, seg_b) ==
  seg_a.base < seg_b.base + seg_b.len /\ seg_b.base < seg_a.base + seg_a.len

\* the segment starts at or above the end of every registered segment
ascending(segs, seg) == \A i \in 1..Len(segs) : segs[i].base + segs[i].len <= seg.base

\* the outcomes of registering a segment: an overlap fails, a registration in
\* ascending order is accepted, and one out of order may be either
add_segment_outcomes(segs, seg) ==
  IF \E i \in 1..Len(segs) : overlaps(segs[i], seg) THEN {FALSE}
  ELSE IF ascending(segs, seg) THEN {TRUE}
  ELSE {TRUE, FALSE}

\* MemoryMap registration with the outcome accepted: the map after the call
add_segment(segs, seg, accepted) == IF accepted THEN Append(segs, seg) ELSE segs

\* mutant of input_size: reading the count drops the pending characters
input_size_draining(m) ==
  [m |-> [m EXCEPT !.input_queue = <<>>], res |-> Ok, val |-> Len(m.input_queue)]

\* OFFSET_INPUT_SIZE: the number of pending input characters
input_size(m) == [m |-> m, res |-> Ok, val |-> Len(m.input_queue)]

\* mutant of input_pop: the newest character is taken (pop_back)
input_pop_back(m) ==
  IF Len(m.input_queue) > 0
  THEN [m |-> [m EXCEPT !.input_queue = SubSeq(@, 1, Len(@) - 1)], res |-> Ok,
        val |-> m.input_queue[Len(m.input_queue)]]
  ELSE [m |-> m, res |-> Ok, val |-> 0]

\* OFFSET_INPUT_GET: pop_front of the input queue, 0 when it is empty
input_pop(m) ==
  IF Len(m.input_queue) > 0
  THEN [m |-> [m EXCEPT !.input_queue = Tail(@)], res |-> Ok, val |-> Head(m.input_queue)]
  ELSE [m |-> m, res |-> Ok, val |-> 0]

\* SerialInputOutputDevice::get
serial_get(m, seg, ind) ==
  LET offset == ind - seg.base IN
  IF ~within(seg, ind) THEN [m |-> m, res |-> InvalidMemoryAccess(ind), val |-> 0]
  ELSE IF offset = 0 THEN input_size(m)
  ELSE IF offset = 1 THEN input_pop(m)
  ELSE IF offset = 2 THEN [m |-> m, res |-> Ok, val |-> Len(m.output_queue)]
  ELSE IF offset = 3 THEN [m |-> m, res |-> Ok, val |-> 0]
  ELSE [m |-> m, res |-> InvalidMemoryAccess(ind), val |-> 0]

\* the serial device's inspect: what get would return, nothing dequeued
serial_inspect(m, seg, ind) ==
  LET offset == ind - seg.base IN
  IF ~within(seg, ind) THEN [m |-> m, res |-> InvalidMemoryAccess(ind), val |-> 0]
  ELSE IF offset = 0 THEN [m |-> m, res |-> Ok, val |-> Len(m.input_queue)]
  ELSE IF offset = 1 THEN
    [m |-> m, res |-> Ok, val |-> IF Len(m.input_queue) > 0 THEN Head(m.input_queue) ELSE 0]
  ELSE IF offset = 2 THEN [m |-> m, res |-> Ok, val |-> Len(m.output_queue)]
  ELSE IF offset = 3 THEN [m |-> m, res |-> Ok, val |-> 0]
  ELSE [m |-> m, res |-> InvalidMemoryAccess(ind), val |-> 0]

\* mutant of serial_set: the whole word is enqueued
serial_set_whole_word(m, seg, ind, data) ==
  IF ~within(seg, ind) THEN [m |-> m, res |-> InvalidMemoryAccess(ind)]
  ELSE IF ind - seg.base = 3
  THEN [m |-> [m EXCEPT !.output_queue = Append(@, data)], res |-> Ok]
  ELSE [m |-> m, res |-> InvalidMemoryWrite(ind)]

\* SerialInputOutputDevice::set
serial_set(m, seg, ind, data) ==
  LET offset == ind - seg.base IN
  IF ~within(seg, ind) THEN [m |-> m, res |-> InvalidMemoryAccess(ind)]
  ELSE IF offset = 3
  THEN [m |-> [m EXCEPT !.output_queue = Append(@, data % 256)], res |-> Ok]
  ELSE [m |-> m, res |-> InvalidMemoryWrite(ind)]

\* mutant of serial_reset: only the output queue is cleared
serial_reset_keep_input(m) == [m EXCEPT !.output_queue = <<>>]

\* SerialInputOutputDevice::reset
serial_reset(m) == [m EXCEPT !.input_queue = <<>>, !.output_queue = <<>>]

\* mutant of ro_within: the offset right above the data passes
ro_within_inclusive(seg, offset) == offset <= seg.len

\* ReadOnlySegment::within, with len() the number of words the segment was built with
ro_within(seg, offset) == offset < seg.len

\* ReadOnlySegment::get, on the offset into the segment
ro_get(seg, offset) ==
  IF ro_within(seg, offset)
  THEN [res |-> Ok, val |-> CellGet(seg.data, offset)]
  ELSE [res |-> InvalidMemoryAccess(offset), val |-> 0]

\* ReadOnlySegment::inspect
ro_inspect(seg, offset) == ro_get(seg, offset)

\* mutant of ro_set: a write inside the segment is accepted
ro_set_in_range_ok(seg, offset) ==
  IF offset < seg.len THEN Ok ELSE InvalidMemoryWrite(offset)

\* mutant of ro_set: the refusal is reported as a failed read
ro_set_access_error(seg, offset) == InvalidMemoryAccess(offset)

\* ReadOnlySegment::set, on the offset into the segment
ro_set(seg, offset) == InvalidMemoryWrite(offset)

\* ReadOnlySegment::reset does nothing
ro_reset(seg) == seg

\* the answer of a read-only segment, handed back by the memory map
ro_answer(m, r) == [m |-> m, res |-> r.res, val |-> r.val]

\* MemoryMap::get on the segment with index i (0: no segment answers)
memory_get_in(segs, m, ind, i) ==
  IF i = 0 THEN [m |-> m, res |-> InvalidMemoryAccess(ind), val |-> 0]
  ELSE IF segs[i].kind = "rw" THEN [m |-> m, res |-> Ok, val |-> CellGet(m.memory, ind)]
  ELSE IF segs[i].kind = "ro" THEN ro_answer(m, ro_get(segs[i], ind - segs[i].base))
  ELSE serial_get(m, segs[i], ind)

\* MemoryMap::get
memory_get(segs, m, ind) == memory_get_in(segs, m, ind, SegmentAt(segs, ind))

\* MemoryMap::inspect on the segment with index i (0: no segment answers)
memory_inspect_in(segs, m, ind, i) ==
  IF i = 0 THEN [m |-> m, res |-> InvalidMemoryAccess(ind), val |-> 0]
  ELSE IF segs[i].kind = "rw" THEN [m |-> m, res |-> Ok, val |-> CellGet(m.memory, ind)]
  ELSE IF segs[i].kind = "ro" THEN ro_answer(m, ro_inspect(segs[i], ind - segs[i].base))
  ELSE serial_inspect(m, segs[i], ind)

\* MemoryMap::inspect
memory_inspect(segs, m, ind) == memory_inspect_in(segs, m, ind, SegmentAt(segs, ind))

\* MemoryMap::set on the segment with index i (0: no segment answers)
memory_set_in(segs, m, ind, data, i) ==
  IF i = 0 THEN [m |-> m, res |-> InvalidMemoryWrite(ind)]
  ELSE IF segs[i].kind = "rw"
  THEN [m |-> [m EXCEPT !.memory = CellSet(@, ind, data)], res |-> Ok]
  ELSE IF segs[i].kind = "ro" THEN [m |-> m, res |-> ro_set(segs[i], ind - segs[i].base)]
  ELSE serial_set(m, segs[i], ind, data)

\* MemoryMap::set
memory_set(segs, m, ind, data) == memory_set_in(segs, m, ind, data, SegmentAt(segs, ind))

\* reset of one segment: a read-write segment clears its cells, the serial
\* device clears its queues, a read-only segment keeps its data
segment_reset(seg, m) ==
  IF seg.kind = "rw"
  THEN [m EXCEPT !.memory = [a \in {x \in DOMAIN m.memory : ~within(seg, x)} |-> m.memory[a]]]
  ELSE IF seg.kind = "serial" THEN serial_reset(m)
  ELSE m

RECURSIVE memory_reset(_, _, _)
\* MemoryMap::reset: every segment in registration order, from segment i on
memory_reset(segs, m, i) ==
  IF i > Len(segs) THEN [segs |-> segs, m |-> m]
  ELSE memory_reset([segs EXCEPT ![i] = IF @.kind = "ro" THEN ro_reset(@) ELSE @],
                    segment_reset(segs[i], m), i + 1)

(* ------------------------------------------------------------ registers *)

\* RegisterManager::get
reg_get(m, reg) == m.registers[reg]

\* RegisterManager::set
reg_set(m, reg, value) == [m EXCEPT !.registers[reg] = value]

\* RegisterManager::reset
registers_reset == [i \in 0..(NUM_REGISTERS - 1) |-> 0]

(* ---------------------------------------------------------------- stack *)

get_sp_offset(m) == reg_get(m, StackPointer)

get_sp_address(m) == STACK_POINTER_OFFSET + get_sp_offset(m)

\* the bound push_sp compares the new stack pointer offset against
push_sp_limit == STACK_POINTER_OFFSET + STACK_POINTER_MAX_SIZE

\* push_sp stores the new stack pointer before it writes the stack cell
push_sp(segs, bld, m, value) ==
  IF get_sp_offset(m) + 1 >= WordSize /\ bld = "debug" THEN [m |-> m, res |-> Panic]
  ELSE IF ToWord(get_sp_offset(m) + 1) > push_sp_limit THEN [m |-> m, res |-> StackOverflow]
  ELSE memory_set(segs, reg_set(m, StackPointer, ToWord(get_sp_offset(m) + 1)),
                  STACK_POINTER_OFFSET + ToWord(get_sp_offset(m) + 1) - 1, value)

\* mutant of peek_sp: the empty-stack check is missing
peek_sp_unchecked(segs, m) == memory_get(segs, m, get_sp_address(m) - 1)

peek_sp(segs, m) ==
  IF get_sp_offset(m) = 0 THEN [m |-> m, res |-> StackOverflow, val |-> 0]
  ELSE memory_get(segs, m, get_sp_address(m) - 1)

\* mutant of pop_sp: the stack pointer is not decremented
pop_sp_keep(segs, m) == peek_sp(segs, m)

\* pop_sp after its peek_sp returned p
pop_sp_after(p) ==
  IF p.res # Ok THEN p
  ELSE [m |-> reg_set(p.m, StackPointer, get_sp_offset(p.m) - 1), res |-> Ok, val |-> p.val]

pop_sp(segs, m) == pop_sp_after(peek_sp(segs, m))

(* ----------------------------------------------------------- arithmetic *)

RECURSIVE BitOp(_, _, _, _)
\* bitwise combination of the low n bits of a and b; op is "and", "or" or "xor"
BitOp(op, a, b, n) ==
  IF n = 0 THEN 0
  ELSE LET x == a % 2
           y == b % 2
           bit == IF op = "and" THEN (IF x = 1 /\ y = 1 THEN 1 ELSE 0)
                  ELSE IF op = "or" THEN (IF x = 1 \/ y = 1 THEN 1 ELSE 0)
                  ELSE (IF x # y THEN 1 ELSE 0)
       IN bit + 2 * BitOp(op, a \div 2, b \div 2, n - 1)

RECURSIVE Pow2(_)
Pow2(n) == IF n = 0 THEN 1 ELSE 2 * Pow2(n - 1)

Abs(x) == IF x < 0 THEN -x ELSE x

\* Rust integer division: the quotient truncated toward zero
TruncDiv(a, b) ==
  IF (a < 0) = (b < 0) THEN Abs(a) \div Abs(b) ELSE -(Abs(a) \div Abs(b))

\* Rust integer remainder: takes the sign of the dividend
TruncRem(a, b) == a - b * TruncDiv(a, b)

InSigned(x) == x >= -HalfWord /\ x < HalfWord

\* the arithmetic match of step(): [res, val]; an overflow check that fails is a
\* panic in a debug build and wraps in a release build
arith_on(checked, inst, opcode, val_a, val_b, sa, sb) ==
  IF opcode = 4 THEN
    IF val_a + val_b >= WordSize /\ checked THEN [res |-> Panic, val |-> 0]
    ELSE [res |-> Ok, val |-> ToWord(val_a + val_b)]
  ELSE IF opcode = 5 THEN
    IF val_a - val_b < 0 /\ checked THEN [res |-> Panic, val |-> 0]
    ELSE [res |-> Ok, val |-> ToWord(val_a - val_b)]
  ELSE IF opcode = 6 THEN
    IF ~InSigned(sa * sb) /\ checked THEN [res |-> Panic, val |-> 0]
    ELSE [res |-> Ok, val |-> ToWord(sa * sb)]
  ELSE IF opcode = 7 THEN
    IF val_b = 0 THEN [res |-> DivideByZero, val |-> 0]
    ELSE IF sa = -HalfWord /\ sb = -1 THEN [res |-> Panic, val |-> 0]
    ELSE [res |-> Ok, val |-> ToWord(TruncDiv(sa, sb))]
  ELSE IF opcode = 8 THEN
    IF val_b = 0 THEN [res |-> ModByZero, val |-> 0]
    ELSE IF sa = -HalfWord /\ sb = -1 THEN [res |-> Panic, val |-> 0]
    ELSE [res |-> Ok, val |-> ToWord(TruncRem(sa, sb))]
  ELSE IF opcode = 9 THEN [res |-> Ok, val |-> BitOp("and", val_a, val_b, 16)]
  ELSE IF opcode = 10 THEN [res |-> Ok, val |-> BitOp("or", val_a, val_b, 16)]
  ELSE IF opcode = 11 THEN [res |-> Ok, val |-> BitOp("xor", val_a, val_b, 16)]
  ELSE IF opcode = 12 THEN
    IF val_b >= 16 /\ checked THEN [res |-> Panic, val |-> 0]
    ELSE [res |-> Ok, val |-> ToWord(val_a * Pow2(val_b % 16))]
  ELSE IF opcode = 13 THEN
    IF val_b >= 16 /\ checked THEN [res |-> Panic, val |-> 0]
    ELSE [res |-> Ok, val |-> val_a \div Pow2(val_b % 16)]
  ELSE [res |-> InvalidInstruction(inst), val |-> 0]

\* the arithmetic match on the words val_a and val_b and on their signed views
arith(bld, inst, opcode, val_a, val_b) ==
  arith_on(bld = "debug", inst, opcode, val_a, val_b, ToSigned(val_a), ToSigned(val_b))

(* ------------------------------------------------------------- executor *)

get_pc_offset(m, reg) ==
  ToWord(reg_get(m, ProgramCounter) + reg_get(m, reg))

increment_pc(m, pc_incr) ==
  reg_set(m, ProgramCounter, ToWord(reg_get(m, ProgramCounter) + pc_incr))

\* mutant of get_immediate_value_unsigned: the high nibble is dropped
get_immediate_value_low_nibble(arg_high, arg_low) == arg_low

get_immediate_value_unsigned(arg_high, arg_low) == arg_high * 16 + arg_low

\* mutant of get_immediate_value_signed: the cast to i8 is missing
get_immediate_value_zero_extended(arg_high, arg_low) == arg_high * 16 + arg_low

get_immediate_value_signed(arg_high, arg_low) ==
  LET b == arg_high * 16 + arg_low IN IF b >= 128 THEN b - 256 ELSE b

\* mutant of fetch_pc: the program counter is advanced before the instruction runs
fetch_pc_incremented(pc) == ToWord(pc + 1)

\* the value step() stores into the program counter right after the fetch
fetch_pc(pc) == pc

\* mutant of should_jump: jgz/jgzr compare the unsigned word
should_jump_unsigned(arg0, cmp) ==
  ((arg0 = 6 \/ arg0 = 7) /\ cmp = 0) \/ ((arg0 = 8 \/ arg0 = 9) /\ cmp # 0)

\* should_jump of the conditional jumps, cmp being the signed view of reg_b
should_jump(arg0, cmp) ==
  ((arg0 = 6 \/ arg0 = 7) /\ cmp = 0) \/ ((arg0 = 8 \/ arg0 = 9) /\ cmp > 0)

jump_relative(arg0) == arg0 = 7 \/ arg0 = 9

\* `match ... { Ok(()) => (), Err(e) => return Err(e) }` on a store or pop s:
\* the error is returned, otherwise the step goes on with pc_incr = 1
after_store(s) == [m |-> s.m, res |-> s.res, pc_incr |-> 1]

\* a value g read from memory or popped goes into register reg unless the read failed
after_load(g, reg) ==
  IF g.res # Ok THEN [m |-> g.m, res |-> g.res, pc_incr |-> 1]
  ELSE [m |-> reg_set(g.m, reg, g.val), res |-> Ok, pc_incr |-> 1]

\* opcode 0, arg0 # 0: jmpri, ld, sav, ldr, savr, jz, jzr, jgz, jgzr;
\* reg_a is arg2 and reg_b is arg1
exec_two_reg(segs, m, inst, arg0, reg_b, reg_a) ==
  IF arg0 = 1 THEN
    [m |-> m, res |-> Ok, pc_incr |-> get_immediate_value_signed(reg_b, reg_a)]
  ELSE IF arg0 = 2 THEN
    after_load(memory_get(segs, m, reg_get(m, reg_b)), reg_a)
  ELSE IF arg0 = 3 THEN
    after_store(memory_set(segs, m, reg_get(m, reg_a), reg_get(m, reg_b)))
  ELSE IF arg0 = 4 THEN
    after_store(memory_set(segs, m, reg_get(m, reg_a), get_pc_offset(m, reg_b)))
  ELSE IF arg0 = 5 THEN
    after_store(memory_set(segs, m, get_pc_offset(m, reg_a), reg_get(m, reg_b)))
  ELSE IF arg0 >= 6 /\ arg0 <= 9 THEN
    IF should_jump(arg0, ToSigned(reg_get(m, reg_b)))
    THEN IF jump_relative(arg0)
         THEN [m |-> m, res |-> Ok, pc_incr |-> ToSigned(reg_get(m, reg_a))]
         ELSE [m |-> reg_set(m, ProgramCounter, reg_get(m, reg_a)), res |-> Ok, pc_incr |-> 1]
    ELSE [m |-> m, res |-> Ok, pc_incr |-> 1]
  ELSE [m |-> m, res |-> InvalidInstruction(inst), pc_incr |-> 1]

RECURSIVE call_push(_, _, _, _)
RECURSIVE call_pushed(_, _, _, _)
\* the push loop of call, from register index i on
call_push(segs, bld, m, i) ==
  IF i = NUM_REGISTERS THEN [m |-> m, res |-> Ok]
  ELSE call_pushed(segs, bld, push_sp(segs, bld, m, reg_get(m, GP(i))), i)

\* the push loop of call after the push of register i returned p
call_pushed(segs, bld, p, i) ==
  IF p.res # Ok THEN p ELSE call_push(segs, bld, p.m, i + 1)

RECURSIVE ret_pop(_, _, _)
RECURSIVE ret_popped(_, _, _)
\* the pop loop of ret, from iteration i on
ret_pop(segs, m, i) ==
  IF i = NUM_REGISTERS THEN [m |-> m, res |-> Ok]
  ELSE ret_popped(segs, pop_sp(segs, m), i)

\* the pop loop of ret after the pop of iteration i returned p
ret_popped(segs, p, i) ==
  IF p.res # Ok THEN [m |-> p.m, res |-> p.res]
  ELSE ret_pop(segs, reg_set(p.m, GP(NUM_REGISTERS - 1 - i), p.val), i + 1)

\* opcode 0, arg0 = 0, arg1 # 0: jmp, jmpr, push, popr, call, int
\* call after its push loop returned c: move to the new location
call_jump(c, dest_register) ==
  IF c.res # Ok THEN [m |-> c.m, res |-> c.res, pc_incr |-> 1]
  ELSE [m |-> reg_set(c.m, ProgramCounter, reg_get(c.m, dest_register)),
        res |-> Ok, pc_incr |-> 0]

\* mutant of exec_int: a masked interrupt is dropped without an error
exec_int_when_masked(m) ==
  IF m.allow_interrupts
  THEN [m |-> m, res |-> InterruptsNotSupported, pc_incr |-> 1]
  ELSE [m |-> m, res |-> Ok, pc_incr |-> 1]

\* mutant of exec_int: the request succeeds while interrupts are allowed
exec_int_when_allowed(m) ==
  IF m.allow_interrupts THEN [m |-> m, res |-> Ok, pc_incr |-> 1]
  ELSE [m |-> m, res |-> InterruptsNotSupported, pc_incr |-> 1]

\* int: the error is returned whatever inton and intoff have set
exec_int(m) == [m |-> m, res |-> InterruptsNotSupported, pc_incr |-> 1]

exec_one_reg(segs, bld, m, inst, arg1, dest_register) ==
  IF arg1 = 1 THEN
    [m |-> reg_set(m, ProgramCounter, reg_get(m, dest_register)), res |-> Ok, pc_incr |-> 0]
  ELSE IF arg1 = 2 THEN
    [m |-> m, res |-> Ok, pc_incr |-> ToSigned(reg_get(m, dest_register))]
  ELSE IF arg1 = 3 THEN
    after_store(push_sp(segs, bld, m, reg_get(m, dest_register)))
  ELSE IF arg1 = 4 THEN after_load(pop_sp(segs, m), dest_register)
  ELSE IF arg1 = 5 THEN call_jump(call_push(segs, bld, m, 0), dest_register)
  ELSE IF arg1 = 6 THEN exec_int(m)
  ELSE [m |-> m, res |-> InvalidInstruction(inst), pc_incr |-> 1]

\* mutant of soft_reset: the stack pointer survives
soft_reset_keep_sp(m) ==
  [m EXCEPT !.registers = [registers_reset EXCEPT ![ProgramCounter] = VECTOR_RESET,
                                                  ![StackPointer] = m.registers[StackPointer]]]

\* SolariumCPU::soft_reset
soft_reset(m) ==
  [m EXCEPT !.registers = [registers_reset EXCEPT ![ProgramCounter] = VECTOR_RESET]]

\* the end of reset(), after the memory map was reset to r
reset_end(r) == [segs |-> r.segs, m |-> [r.m EXCEPT !.allow_interrupts = TRUE]]

\* SolariumCPU::reset: the segments and the machine after the call
reset(segs, m) == reset_end(memory_reset(segs, soft_reset(m), 1))

\* mutant of exec_zero_arg: intoff falls through into reset
exec_zero_arg_intoff_resets(segs, m, inst, arg2) ==
  IF arg2 = 0 THEN [m |-> m, res |-> Ok, pc_incr |-> 1]
  ELSE IF arg2 = 1 THEN [m |-> [m EXCEPT !.allow_interrupts = TRUE], res |-> Ok, pc_incr |-> 1]
  ELSE IF arg2 \in {2, 3}
  THEN [m |-> soft_reset([m EXCEPT !.allow_interrupts = FALSE]), res |-> Ok, pc_incr |-> 0]
  ELSE IF arg2 = 4 THEN after_store(pop_sp(segs, m))
  ELSE IF arg2 = 5 THEN after_store(ret_pop(segs, m, 0))
  ELSE [m |-> m, res |-> InvalidInstruction(inst), pc_incr |-> 1]

\* opcode 0, arg0 = arg1 = 0: noop, inton, intoff, reset, pop, ret
exec_zero_arg(segs, m, inst, arg2) ==
  IF arg2 = 0 THEN [m |-> m, res |-> Ok, pc_incr |-> 1]
  ELSE IF arg2 = 1 THEN [m |-> [m EXCEPT !.allow_interrupts = TRUE], res |-> Ok, pc_incr |-> 1]
  ELSE IF arg2 = 2 THEN [m |-> [m EXCEPT !.allow_interrupts = FALSE], res |-> Ok, pc_incr |-> 1]
  ELSE IF arg2 = 3 THEN [m |-> soft_reset(m), res |-> Ok, pc_incr |-> 0]
  ELSE IF arg2 = 4 THEN after_store(pop_sp(segs, m))
  ELSE IF arg2 = 5 THEN after_store(ret_pop(segs, m, 0))
  ELSE [m |-> m, res |-> InvalidInstruction(inst), pc_incr |-> 1]

\* opcodes 1 and 2: ldi, ldui
exec_immediate(m, opcode, arg0, arg1, arg2) ==
  [m |-> reg_set(m, arg2, IF opcode = 1
                          THEN ToWord(get_immediate_value_signed(arg0, arg1))
                          ELSE get_immediate_value_unsigned(arg0, arg1)),
   res |-> Ok, pc_incr |-> 1]

\* mutant of exec_ldir: the offset is taken from the address after the instruction
exec_ldir_from_next(segs, m, pc, arg0, arg1, arg2) ==
  after_load(memory_get(segs, m, pc + 1 + get_immediate_value_signed(arg0, arg1)), arg2)

\* opcode 3: ldir; pc is the address the instruction was fetched from
exec_ldir(segs, m, pc, arg0, arg1, arg2) ==
  IF ~(pc + get_immediate_value_signed(arg0, arg1) >= 0)
  THEN [m |-> m, res |-> Panic, pc_incr |-> 1]
  ELSE after_load(memory_get(segs, m, pc + get_immediate_value_signed(arg0, arg1)), arg2)

\* opcodes 4..13: add, sub, mul, div, mod, band, bor, bxor, bsftl, bsftr
\* mutant of arith_store: the destination is written before the error is returned
arith_store_always(m, r, reg_dest) ==
  [m |-> reg_set(m, reg_dest, r.val), res |-> r.res, pc_incr |-> 1]

\* the result r of the arithmetic match goes into reg_dest unless it is an error
arith_store(m, r, reg_dest) ==
  IF r.res # Ok THEN [m |-> m, res |-> r.res, pc_incr |-> 1]
  ELSE [m |-> reg_set(m, reg_dest, r.val), res |-> Ok, pc_incr |-> 1]

\* mutant of exec_arith: the result goes into register arg0
exec_arith_dest_arg0(bld, m, inst, opcode, arg0, arg1, arg2) ==
  arith_store(m, arith(bld, inst, opcode, reg_get(m, arg1), reg_get(m, arg0)), arg0)

\* val_a is register arg1 and val_b is register arg0
exec_arith(bld, m, inst, opcode, arg0, arg1, arg2) ==
  arith_store(m, arith(bld, inst, opcode, reg_get(m, arg1), reg_get(m, arg0)), arg2)

Opcode(inst) == inst \div 4096

Arg0(inst) == (inst \div 256) % 16

Arg1(inst) == (inst \div 16) % 16

Arg2(inst) == inst % 16

\* the opcode switch of step(); opcodes 14 and 15 match no branch
decoded(segs, bld, m, pc, inst, opcode, arg0, arg1, arg2) ==
  IF opcode = 0 THEN
    IF arg0 # 0 THEN exec_two_reg(segs, m, inst, arg0, arg1, arg2)
    ELSE IF arg1 # 0 THEN exec_one_reg(segs, bld, m, inst, arg1, arg2)
    ELSE exec_zero_arg(segs, m, inst, arg2)
  ELSE IF opcode = 1 \/ opcode = 2 THEN exec_immediate(m, opcode, arg0, arg1, arg2)
  ELSE IF opcode = 3 THEN exec_ldir(segs, m, pc, arg0, arg1, arg2)
  ELSE IF opcode <= 13 THEN exec_arith(bld, m, inst, opcode, arg0, arg1, arg2)
  ELSE [m |-> m, res |-> Ok, pc_incr |-> 1]

\* step() from the extraction of the four nibbles on
execute(segs, bld, m, pc, inst) ==
  decoded(segs, bld, m, pc, inst, Opcode(inst), Arg0(inst), Arg1(inst), Arg2(inst))

\* the end of step() after the instruction returned e: the program counter is
\* incremented only when no error was returned
step_end(e, inst) ==
  IF e.res = Ok
  THEN [m |-> increment_pc(e.m, e.pc_incr), res |-> Ok, inst |-> inst]
  ELSE [m |-> e.m, res |-> e.res, inst |-> inst]

\* step() after the fetch at pc returned f
step_fetched(segs, bld, pc, f) ==
  IF f.res # Ok THEN [m |-> f.m, res |-> f.res, inst |-> -1]
  ELSE step_end(execute(segs, bld, reg_set(f.m, ProgramCounter, fetch_pc(pc)), pc, f.val),
                f.val)

\* SolariumCPU::step: [m, res, inst]; inst is -1 when the fetch failed
step(segs, bld, m) ==
  step_fetched(segs, bld, reg_get(m, ProgramCounter),
               memory_get(segs, m, reg_get(m, ProgramCounter)))

(* -------------------------------------------------------------- machine *)

\* the SolariumCPU and the devices on its memory map, as one record
Machine ==
  [registers |-> registers, memory |-> memory, input_queue |-> input_queue,
   output_queue |-> output_queue, allow_interrupts |-> allow_interrupts]

NoCells == [x \in {} |-> 0]

RwSegment(base, len) == [kind |-> "rw", base |-> base, len |-> len, data |-> NoCells]

RoSegment(base, len, data) == [kind |-> "ro", base |-> base, len |-> len, data |-> data]

SerialSegment(base) == [kind |-> "serial", base |-> base, len |-> 4, data |-> NoCells]

\* one read-write segment over the whole address space
FlatLayout == <<RwSegment(0, WordSize)>>

\* program and stack window read-write, the serial device right above the window
SerialLayout == <<RwSegment(0, 4096), SerialSegment(4096)>>

\* only the first two cells of the stack window are mapped
ShortStackLayout == <<RwSegment(0, 2050)>>

\* the stack window is read-only above its first cell
RomStackLayout == <<RwSegment(0, 2049), RoSegment(2049, 2047, NoCells)>>

Layouts == {FlatLayout, SerialLayout, ShortStackLayout, RomStackLayout}

Builds == {"debug", "release"}

(* --------------------------------------------------------------- bounds *)

MaxSteps == 4

MaxPatches == 1

TraceLen == 4

MaxStackSteps == 132

(* ------------------------------------------------------------- encoding *)

Enc(opcode, arg0, arg1, arg2) == opcode * 4096 + arg0 * 256 + arg1 * 16 + arg2

NoopWord == Enc(0, 0, 0, 0)

PopWord == Enc(0, 0, 0, 4)

RetWord == Enc(0, 0, 0, 5)

JmpWord(r) == Enc(0, 0, 1, r)

PushWord(r) == Enc(0, 0, 3, r)

PoprWord(r) == Enc(0, 0, 4, r)

CallWord(r) == Enc(0, 0, 5, r)

JmpriWord(imm) == Enc(0, 1, (ToWord(imm) \div 16) % 16, ToWord(imm) % 16)

LdiWord(r, imm) == Enc(1, (ToWord(imm) \div 16) % 16, ToWord(imm) % 16, r)

(* ------------------------------------------------------- programs loaded *)

OperandPairs == {<<3, 4>>, <<4, 3>>, <<3, 3>>, <<3, 0>>, <<0, 3>>}

ImmediatePairs == {<<0, 0>>, <<0, 2>>, <<7, 15>>, <<8, 0>>, <<15, 15>>}

ZeroArgWords == {Enc(0, 0, 0, k) : k \in {0, 1, 2, 3, 4, 5, 6, 15}}

OneRegWords == {Enc(0, 0, k, r) : k \in 1..7, r \in {0, 1, 3}}

TwoRegWords ==
  {Enc(0, k, p[1], p[2]) : k \in 2..10, p \in OperandPairs}
    \cup {Enc(0, 1, p[1], p[2]) : p \in ImmediatePairs}

ImmediateWords == {Enc(op, p[1], p[2], r) : op \in 1..3, p \in ImmediatePairs, r \in {0, 3}}

ArithWords == {Enc(op, p[1], p[2], r) : op \in 4..13, p \in {<<3, 4>>, <<4, 3>>}, r \in {0, 5}}

UnassignedWords == {Enc(14, 0, 0, 0), Enc(15, 3, 4, 3)}

InstrWords ==
  ZeroArgWords \cup OneRegWords \cup TwoRegWords \cup ImmediateWords
    \cup ArithWords \cup UnassignedWords

PresetPC == {0, 65535}

PresetSP == {0, 16, 65535}

PresetGP == {<<0, 0>>, <<5, 65535>>, <<32768, 32767>>, <<65535, 4097>>, <<32767, 2>>, <<1, 32768>>}

\* register values the host sets before it runs a program: PC, SP, r3, r4
Presets == {[pc |-> pc, sp |-> sp, r3 |-> g[1], r4 |-> g[2]] :
              pc \in PresetPC, sp \in PresetSP, g \in PresetGP}

\* a program of consecutive words, placed at address at
At(at, words) == [a \in {ToWord(at + i - 1) : i \in 1..Len(words)} |->
                    words[CHOOSE i \in 1..Len(words) : ToWord(at + i - 1) = a]]

SingleLoads == {[img |-> At(p.pc, <<w>>), pre |-> p] : w \in InstrWords, p \in Presets}

PushRegs == {3, 4}

PopRegs == {3, 4, 5}

PushPopPrograms ==
  {<<PushWord(r), PoprWord(q)>> : r \in PushRegs, q \in PopRegs}
    \cup {<<PushWord(r[1]), PushWord(r[2]), PoprWord(q[2]), PoprWord(q[1])>> :
            r \in PushRegs \X PushRegs, q \in PopRegs \X PopRegs}
    \cup {<<PushWord(3), PopWord>>, <<LdiWord(3, 1), PushWord(3), PopWord>>}

StackLoads == {[img |-> At(p.pc, w), pre |-> p] : w \in PushPopPrograms, p \in Presets}

\* call r3 at the program counter, ret at the address r3 holds
CallLoads == {[img |-> At(p.pc, <<CallWord(3)>>) @@ At(p.r3, <<RetWord>>), pre |-> p] :
                p \in Presets}

Loads == SingleLoads \cup StackLoads \cup CallLoads

\* the host's set_register calls for a preset
ApplyPreset(regs, pre) ==
  [regs EXCEPT ![ProgramCounter] = pre.pc, ![StackPointer] = pre.sp, ![3] = pre.r3, ![4] = pre.r4]

RECURSIVE LoadImage(_, _, _)
\* the host's memory_set calls for a program image, lowest address first
RECURSIVE LoadImageFrom(_, _, _, _)
LoadImage(segs, m, img) ==
  IF DOMAIN img = {} THEN m
  ELSE LoadImageFrom(segs, m, img, CHOOSE x \in DOMAIN img : \A y \in DOMAIN img : x <= y)

\* the memory_set call for the word at address a, then the rest of the image
LoadImageFrom(segs, m, img, a) ==
  LoadImage(segs, memory_set(segs, m, a, img[a]).m, [x \in DOMAIN img \ {a} |-> img[x]])

(* -------------------------------------------------------------- actions *)

\* SolariumCPU::new on a memory map of the chosen layout: every register 0,
\* PC at the reset vector, memory cleared, queues empty
InitOn(layouts) ==
  /\ segments \in layouts
  /\ build \in Builds
  /\ registers = [registers_reset EXCEPT ![ProgramCounter] = VECTOR_RESET]
  /\ memory = NoCells
  /\ input_queue = <<>>
  /\ output_queue = <<>>
  /\ allow_interrupts = TRUE
  /\ image = NoCells
  /\ trace = <<>>
  /\ steps = 0
  /\ patches = 0
  /\ phase = "new"

Init == InitOn(Layouts)

LastN(s, n) == IF Len(s) <= n THEN s ELSE SubSeq(s, Len(s) - n + 1, Len(s))

\* the host loads a program image and sets the registers it starts from
LoadedFrom(loads) ==
  /\ phase = "new"
  /\ \E l \in loads :
       /\ memory' = LoadImage(segments, Machine, l.img).memory
       /\ registers' = ApplyPreset(registers, l.pre)
       /\ image' = l.img
  /\ phase' = "run"
  /\ UNCHANGED <<segments, build, input_queue, output_queue, allow_interrupts,
                 steps, patches>>

LoadFrom(loads) == LoadedFrom(loads) /\ trace' = trace

Load == LoadFrom(Loads)

\* one call of step(); a panic ends the run
Stepped(s) ==
  /\ registers' = s.m.registers
  /\ memory' = s.m.memory
  /\ input_queue' = s.m.input_queue
  /\ output_queue' = s.m.output_queue
  /\ allow_interrupts' = s.m.allow_interrupts
  /\ trace' = LastN(Append(trace, [registers |-> registers, inst |-> s.inst,
                                    res |-> s.res]), TraceLen)
  /\ phase' = IF s.res = Panic THEN "aborted" ELSE "run"

StepWithin(bound) ==
  /\ phase = "run"
  /\ steps < bound
  /\ Stepped(step(segments, build, Machine))
  /\ steps' = steps + 1
  /\ UNCHANGED <<segments, build, image, patches>>

Step == StepWithin(MaxSteps)

PatchRegs == {StackPointer}

PatchValues == {0}

\* after a failed step the host patches a register (set_register) and may retry
SetRegister ==
  /\ phase = "run"
  /\ patches < MaxPatches
  /\ trace # <<>>
  /\ IsErr(trace[Len(trace)].res)
  /\ \E i \in PatchRegs, w \in PatchValues :
       /\ registers[i] # w
       /\ registers' = [registers EXCEPT ![i] = w]
  /\ trace' = <<>>
  /\ patches' = patches + 1
  /\ UNCHANGED <<segments, build, memory, input_queue, output_queue,
                 allow_interrupts, image, steps, phase>>

Next == Load \/ Step \/ SetRegister

Spec == Init /\ [][Next]_vars

(* ------------------------------------------- the stack-filling programs *)

\* the registers as reset() leaves them: nothing writes SP directly
ResetPreset == [pc |-> VECTOR_RESET, sp |-> 0, r3 |-> 0, r4 |-> 0]

\* `call r3` at 0 with r3 = 0 calls itself for ever; `push r3; jmpri -1` pushes for ever
StackLoopPrograms == {<<CallWord(3)>>, <<PushWord(3), JmpriWord(-1)>>}

StackLoopLoads == {[img |-> At(VECTOR_RESET, w), pre |-> ResetPreset] : w \in StackLoopPrograms}

LoadStack == LoadFrom(StackLoopLoads)

StepStack == StepWithin(MaxStackSteps)

NextStack == LoadStack \/ StepStack

SpecStack == Init /\ [][NextStack]_vars

(* ------------------------------------------------------ host-driven runs *)

\* trace entries of the host's calls of reset() and soft_reset()
ResetCall == -2

SoftResetCall == -3

RomData == (0 :> 4660) @@ (1 :> 7)

\* program and stack read-write, the serial device at 0x1000, a two-word
\* read-only segment right above it
DeviceLayout == <<RwSegment(0, 4096), SerialSegment(4096), RoSegment(4100, 2, RomData)>>

MaxHostSteps == 4

MaxInput == 1

InputChars == {65}

ResetWord == Enc(0, 0, 0, 3)

IntonWord == Enc(0, 0, 0, 1)

IntoffWord == Enc(0, 0, 0, 2)

IntWord(r) == Enc(0, 0, 6, r)

\* `ld reg_a, reg_b` and `sav reg_a, reg_b`: reg_b travels in arg1, reg_a in arg2
LdWord(reg_a, reg_b) == Enc(0, 2, reg_b, reg_a)

SavWord(reg_a, reg_b) == Enc(0, 3, reg_b, reg_a)

\* `add dest, a, b`: val_a is register arg1, val_b register arg0, dest arg2
AddWord(dest, a, b) == Enc(4, b, a, dest)

\* r4 = 0x1003 is the serial output cell, r4 = 0x1001 the serial input cell
HostPresets ==
  {ResetPreset,
   [pc |-> VECTOR_RESET, sp |-> 16, r3 |-> 65, r4 |-> 4099],
   [pc |-> VECTOR_RESET, sp |-> 0, r3 |-> 321, r4 |-> 4097]}

HostPrograms ==
  {<<ResetWord>>,
   <<SavWord(4, 3), ResetWord>>,
   <<LdWord(3, 4), ResetWord>>,
   <<PushWord(3), ResetWord>>,
   <<LdiWord(3, 5), LdiWord(4, 7), AddWord(5, 3, 4), ResetWord>>,
   <<IntWord(3)>>,
   <<IntonWord, IntWord(3)>>,
   <<IntoffWord, IntWord(3)>>,
   <<IntoffWord, IntonWord, IntWord(0)>>,
   <<IntonWord, IntoffWord, IntWord(4)>>}

HostLoads == {[img |-> At(VECTOR_RESET, w), pre |-> p] : w \in HostPrograms, p \in HostPresets}

\* SolariumCPU::new on the device layout
InitHost == InitOn({DeviceLayout})

LoadHost == LoadFrom(HostLoads)

StepHost == StepWithin(MaxHostSteps)

\* the host puts a character into the serial device's input queue
PushInputWithin(bound, chars, phases) ==
  /\ phase \in phases
  /\ Len(input_queue) < bound
  /\ \E c \in chars : input_queue' = Append(input_queue, c)
  /\ UNCHANGED <<segments, build, registers, memory, output_queue, allow_interrupts,
                 image, trace, steps, patches, phase>>

PushInput == PushInputWithin(MaxInput, InputChars, {"new", "run"})

\* the machine and the segments after a host call that returned r
HostCalled(r, call) ==
  /\ segments' = r.segs
  /\ registers' = r.m.registers
  /\ memory' = r.m.memory
  /\ input_queue' = r.m.input_queue
  /\ output_queue' = r.m.output_queue
  /\ allow_interrupts' = r.m.allow_interrupts
  /\ trace' = <<[registers |-> registers, inst |-> call, res |-> NoResult]>>

\* the host calls reset(): the machine is as new() leaves it and is loaded again
HostReset ==
  /\ phase = "run"
  /\ HostCalled(reset(segments, Machine), ResetCall)
  /\ image' = NoCells
  /\ phase' = "new"
  /\ UNCHANGED <<build, steps, patches>>

\* the host calls soft_reset()
HostSoftReset ==
  /\ phase = "run"
  /\ registers # soft_reset(Machine).registers
  /\ HostCalled([segs |-> segments, m |-> soft_reset(Machine)], SoftResetCall)
  /\ UNCHANGED <<build, image, steps, patches, phase>>

NextHost == LoadHost \/ StepHost \/ PushInput \/ HostReset \/ HostSoftReset

SpecHost == InitHost /\ [][NextHost]_vars

(* ------------------------------------------------- host calls on devices *)

\* trace entries of the host's memory_get, memory_set and memory_inspect calls
\* and of calls made on the read-only segment itself
GetCall == -4

SetCall == -5

InspectCall == -6

RoGetCall == -7

RoSetCall == -8

RoInspectCall == -9

RoResetCall == -10

\* read-write memory, the serial device at 0x1000, a hole of four addresses, a
\* two-word read-only segment, nothing above it
HoleLayout == <<RwSegment(0, 4096), SerialSegment(4096), RoSegment(4104, 2, RomData)>>

\* the read-only segment of HoleLayout
RoIndex == 3

MaxDeviceSteps == 2

MaxDeviceInput == 2

MaxOutput == 2

DeviceChars == {65, 66}

\* a read-write cell, the four serial cells, the hole, the read-only words, and
\* addresses above every segment
DeviceAddrs == {10, 4096, 4097, 4098, 4099, 4100, 4104, 4105, 4106, 65535}

DeviceWords == {321, 66}

\* offsets handed to the read-only segment itself, inside and outside its data
RoOffsets == {0, 1, 2, 3, 65535}

\* the four cells of the serial device
SerialCells == {4096, 4097, 4098, 4099}

\* the cells the host reads and writes next to its inspects: the serial cells and
\* a read-write cell
DeviceCells == SerialCells \cup {10}

\* a read-write cell, the hole, the read-only words, addresses above every segment
SegmentAddrs == DeviceAddrs \ SerialCells

\* two reads from the address in r4; a write of r3 to the address in r4
AccessLoads(load_addrs, save_addrs) ==
  {[img |-> At(VECTOR_RESET, <<LdWord(3, 4), LdWord(5, 4)>>),
    pre |-> [pc |-> VECTOR_RESET, sp |-> 0, r3 |-> 0, r4 |-> a]] : a \in load_addrs}
  \cup
  {[img |-> At(VECTOR_RESET, <<SavWord(4, 3)>>),
    pre |-> [pc |-> VECTOR_RESET, sp |-> 0, r3 |-> 321, r4 |-> a]] : a \in save_addrs}

\* ld and sav on the serial cells
DeviceLoads == AccessLoads(SerialCells, {4096, 4099})

\* ld and sav on read-write memory, the hole, the read-only segment and above it
SegmentLoads == AccessLoads({10, 4100, 4104, 4106}, {10, 4100, 4104, 4106})

InitDevice == InitOn({HoleLayout})

\* the trace of a run starts empty
LoadDevice == LoadedFrom(DeviceLoads) /\ trace' = <<>>

StepDevice == StepWithin(MaxDeviceSteps)

PushDeviceInput == PushInputWithin(MaxDeviceInput, DeviceChars, {"new"})

\* consecutive host calls are told apart by the turn of their trace entries
NextTurn == IF trace # <<>> /\ trace[1].inst <= GetCall THEN 1 - trace[1].turn ELSE 0

\* the state after a host call and the trace entry that records the call
HostCallDone(call, addr, data, segs, m, res, val) ==
  /\ segments' = segs
  /\ registers' = m.registers
  /\ memory' = m.memory
  /\ input_queue' = m.input_queue
  /\ output_queue' = m.output_queue
  /\ allow_interrupts' = m.allow_interrupts
  /\ trace' = <<[registers |-> registers, inst |-> call, res |-> res,
                 addr |-> addr, data |-> data, val |-> val, turn |-> NextTurn]>>
  /\ UNCHANGED <<build, image, steps, patches, phase>>

\* a call on the memory map returned r
MapCallDone(call, addr, data, r, val) == HostCallDone(call, addr, data, segments, r.m, r.res, val)

\* the host calls memory_get
MapGetAt(addrs) ==
  /\ phase = "new"
  /\ \E a \in addrs : MapCallDone(GetCall, a, 0, memory_get(segments, Machine, a),
                                         memory_get(segments, Machine, a).val)

\* the host calls memory_set
MapSetAt(addrs) ==
  /\ phase = "new"
  /\ Len(output_queue) < MaxOutput
  /\ \E a \in addrs, w \in DeviceWords :
       MapCallDone(SetCall, a, w, memory_set(segments, Machine, a, w), 0)

\* the host calls memory_inspect
MapInspectAt(addrs) ==
  /\ phase = "new"
  /\ \E a \in addrs : MapCallDone(InspectCall, a, 0, memory_inspect(segments, Machine, a),
                                         memory_inspect(segments, Machine, a).val)

\* a call on the read-only segment returned r
RoCallDone(call, offset, data, r) ==
  HostCallDone(call, offset, data, segments, Machine, r.res, r.val)

\* get, inspect and set called on the read-only segment with any offset
RoGet ==
  /\ phase = "new"
  /\ \E o \in RoOffsets : RoCallDone(RoGetCall, o, 0, ro_get(segments[RoIndex], o))

RoInspect ==
  /\ phase = "new"
  /\ \E o \in RoOffsets : RoCallDone(RoInspectCall, o, 0, ro_inspect(segments[RoIndex], o))

RoSet ==
  /\ phase = "new"
  /\ \E o \in RoOffsets, w \in DeviceWords :
       RoCallDone(RoSetCall, o, w, [res |-> ro_set(segments[RoIndex], o), val |-> 0])

\* reset called on the read-only segment
RoReset ==
  /\ phase = "new"
  /\ HostCallDone(RoResetCall, 0, 0, [segments EXCEPT ![RoIndex] = ro_reset(@)],
                  Machine, NoResult, 0)

\* the host and the CPU on the serial device
NextDevice ==
  \/ PushDeviceInput
  \/ MapGetAt(DeviceCells) \/ MapSetAt(DeviceCells) \/ MapInspectAt(DeviceAddrs)
  \/ RoInspect
  \/ LoadDevice \/ StepDevice

SpecDevice == InitDevice /\ [][NextDevice]_vars

InitSegments == InitOn({HoleLayout})

LoadSegments == LoadedFrom(SegmentLoads) /\ trace' = <<>>

StepSegments == StepWithin(MaxDeviceSteps)

\* the host and the CPU on read-write memory, the hole, the read-only segment and
\* the addresses above it
NextSegments ==
  \/ MapGetAt(SegmentAddrs) \/ MapSetAt(SegmentAddrs) \/ MapInspectAt(SegmentAddrs)
  \/ RoGet \/ RoInspect \/ RoSet \/ RoReset
  \/ LoadSegments \/ StepSegments

SpecSegments == InitSegments /\ [][NextSegments]_vars

(* ------------------------------------------ instructions fetched anywhere *)

\* NUL, SOH and STX, whose codes are the words of noop, inton and intoff, and 'A'
FetchChars == {0, 1, 2, 65}

SwitchWords == {NoopWord, IntonWord, IntoffWord}

\* two of the three instructions at the reset vector, or one in the last word; the
\* run starts there or on the serial device's input count or input cell
FetchLoads ==
  {[img |-> At(VECTOR_RESET, <<w1, w2>>), pre |-> [pc |-> a, sp |-> 16, r3 |-> 65, r4 |-> 4099]] :
     w1 \in SwitchWords, w2 \in SwitchWords, a \in {VECTOR_RESET, 4096, 4097}}
  \cup {[img |-> At(65535, <<w>>), pre |-> [pc |-> 65535, sp |-> 16, r3 |-> 65, r4 |-> 4099]] :
          w \in SwitchWords}

InitFetch == InitOn({HoleLayout, FlatLayout})

PushFetchInput == PushInputWithin(MaxDeviceInput, FetchChars, {"new"})

LoadFetch == LoadFrom(FetchLoads)

NextFetch == PushFetchInput \/ LoadFetch \/ StepDevice

SpecFetch == InitFetch /\ [][NextFetch]_vars

(* ------------------------------------------------ segment registration *)

\* trace entry of a registration call on the memory map
AddCall == -11

RegistrationFailed == [kind |-> "RegistrationFailed", arg |-> 0]

MaxSegments == 3

MapBases == {0, 2, 4, 6}

MapLengths == {2, 4}

\* the segments the host tries to register
MapCandidates ==
  {RwSegment(b, n) : b \in MapBases, n \in MapLengths}
  \cup {RoSegment(b, 2, NoCells) : b \in {2, 6}}
  \cup {SerialSegment(b) : b \in {0, 4}}

\* MemoryMap::new: no segment registered
InitMap == InitOn({<<>>})

\* the host registers a segment
AddSegment ==
  /\ phase = "new"
  /\ Len(segments) < MaxSegments
  /\ \E seg \in MapCandidates : \E accepted \in add_segment_outcomes(segments, seg) :
       HostCallDone(AddCall, seg.base, seg.len, add_segment(segments, seg, accepted), Machine,
                    IF accepted THEN Ok ELSE RegistrationFailed, 0)

MapProbes == {1, 4, 9}

\* the host reads through the map being built
MapProbe ==
  /\ phase = "new"
  /\ MapInspectAt(MapProbes)

NextMap == AddSegment \/ MapProbe

SpecMap == InitMap /\ [][NextMap]_vars

(* ------------------------------------------------------ call and ret frames *)

MaxFrameSteps == 2

\* stack pointers a call starts from: empty stack, a used stack, the last frame
\* that fits below the bound of push_sp, one above it, and the largest word
FrameSP == {0, 16, 4080, 4081, 65535}

\* call through PC, SP and a general-purpose register, with ret at the target
FrameCallLoads ==
  {[img |-> At(VECTOR_RESET, <<CallWord(r)>>) @@ At(t, <<RetWord>>),
    pre |-> [pc |-> VECTOR_RESET, sp |-> sp, r3 |-> t, r4 |-> 9]] :
      r \in {ProgramCounter, StackPointer, 3}, sp \in FrameSP, t \in {7, 32}}

\* words the host leaves in the stack cell that ret pops into register 1
FrameSlotValues == 0..17

\* ret on sixteen stack words the host wrote: 9 in every cell but the second
FrameRetLoads ==
  {[img |-> At(VECTOR_RESET, <<RetWord>>)
            @@ (STACK_POINTER_OFFSET + 1 :> v)
            @@ [a \in STACK_POINTER_OFFSET..(STACK_POINTER_OFFSET + 15) |-> 9],
    pre |-> [pc |-> VECTOR_RESET, sp |-> 16, r3 |-> 0, r4 |-> 0]] : v \in FrameSlotValues}

FrameLoads == FrameCallLoads \cup FrameRetLoads

InitFrame == InitOn({FlatLayout})

LoadFrame == LoadFrom(FrameLoads)

StepFrame == StepWithin(MaxFrameSteps)

NextFrame == LoadFrame \/ StepFrame

SpecFrame == InitFrame /\ [][NextFrame]_vars

(* ------------------------------------------- the assembler's raw output *)

\* trace entry of one word written by the assembler front-end
EmitCall == -12

\* `(v & 0xF) as u8`
binary_low(v) == (v % 16) % 256

\* `((v & 0xF0) >> 8) as u8`
binary_high(v) == ((((v \div 16) % 16) * 16) \div 256) % 256

\* OutputType::Binary: the two bytes written for the word v
binary_bytes(v) == <<binary_low(v), binary_high(v)>>

\* assembled words: every nibble alone, and words with several nibbles set
EncodeWords ==
  {n * k : n \in 0..15, k \in {1, 16, 256, 4096}} \cup {255, 4660, 32768, 43981, 65535}

InitEncode == InitOn({FlatLayout})

\* the front-end writes one assembled word in the binary format
EmitBinary ==
  /\ phase = "new"
  /\ \E w \in EncodeWords :
       HostCallDone(EmitCall, 0, w, segments, Machine, Ok, binary_bytes(w))

NextEncode == EmitBinary

SpecEncode == InitEncode /\ [][NextEncode]_vars

(* ------------------------------------------- arithmetic and immediates *)

MaxArithSteps == 3

\* operand words around the edges of the unsigned and the signed range and of
\* the shift counts
ArithValues == {0, 1, 2, 5, 15, 16, 17, 255, 32767, 32768, 65535}

ArithPresets == {[pc |-> pc, sp |-> 0, r3 |-> a, r4 |-> b] :
                   pc \in {VECTOR_RESET, 9}, a \in ArithValues, b \in ArithValues}

\* an arithmetic word `op dest, a, b`: val_a is register arg1, val_b register arg0
ArithWord(op, dest, a, b) == Enc(op, b, a, dest)

DivWord(dest, a, b) == ArithWord(7, dest, a, b)

\* val_a = r3 and val_b = r4, into r5 or back into r3
ArithLoads == {[img |-> At(p.pc, <<ArithWord(op, dest, 3, 4)>>), pre |-> p] :
                 op \in 4..13, dest \in {3, 5}, p \in ArithPresets}

ImmediatePresets == {[pc |-> pc, sp |-> 0, r3 |-> 17, r4 |-> 32768] : pc \in {VECTOR_RESET, 9}}

\* ldi and ldui with every 8-bit pattern, into r3 or into PC
ImmediateLoads == {[img |-> At(p.pc, <<Enc(op, h, l, r)>>), pre |-> p] :
                     op \in {1, 2}, h \in 0..15, l \in 0..15, r \in {ProgramCounter, 3},
                     p \in ImmediatePresets}

ScenarioThree == <<LdiWord(3, 0), LdiWord(4, 5), DivWord(4, 3, 5)>>

ScenarioLoads == {[img |-> At(VECTOR_RESET, ScenarioThree), pre |-> ResetPreset]}

LdirWord(r, imm) == Enc(3, (ToWord(imm) \div 16) % 16, ToWord(imm) % 16, r)

\* the three lines the expression compiler emits for the word literal val:
\* `jmpri 2`, `.load val`, `ldri register, -1`
WordLiteral(val, register) == <<JmpriWord(2), val, LdirWord(register, -1)>>

\* literals that are themselves instruction words (ret, ldir, reset, an unassigned
\* opcode) and plain values
LiteralValues == {0, RetWord, ResetWord, LdirWord(3, -1), Enc(14, 0, 0, 0), 4660, 65535}

\* the sequence at the reset vector, further up, and in the last three words
LiteralLoads ==
  {[img |-> At(a, WordLiteral(v, r)), pre |-> [pc |-> a, sp |-> 0, r3 |-> 17, r4 |-> 32768]] :
     v \in LiteralValues, r \in {StackPointer, 3, 15}, a \in {VECTOR_RESET, 9, 65533}}

InitArith == InitOn({FlatLayout})

ArithSpecLoads == ArithLoads \cup ImmediateLoads \cup ScenarioLoads \cup LiteralLoads

LoadArith == LoadFrom(ArithSpecLoads)

StepArith == StepWithin(MaxArithSteps)

NextArith == LoadArith \/ StepArith

SpecArith == InitArith /\ [][NextArith]_vars

(* --------------------------------------------------------------- claims *)

HasLast == trace # <<>>

\* the last step taken: the registers before it, the word fetched, the result
Last == trace[Len(trace)]

LastOk == HasLast /\ Last.res = Ok

LastErr == HasLast /\ IsErr(Last.res)

PrePC == Last.registers[ProgramCounter]

PreSP == Last.registers[StackPointer]

IsZeroArg(inst, k) == inst >= 0 /\ Opcode(inst) = 0 /\ Arg0(inst) = 0 /\ Arg1(inst) = 0 /\ Arg2(inst) = k

IsOneReg(inst, k) == inst >= 0 /\ Opcode(inst) = 0 /\ Arg0(inst) = 0 /\ Arg1(inst) = k

IsTwoReg(inst, k) == inst >= 0 /\ Opcode(inst) = 0 /\ Arg0(inst) = k

GeneralPurpose == 3..(NUM_REGISTERS - 1)

\* C1: when step() returns an error the program counter is the one before the call
C1_PcKeptOnError == LastErr => registers[ProgramCounter] = PrePC

\* a step failed after it had already changed a register, and PC is where it was
C1_Witness == LastErr /\ Last.inst >= 0 /\ registers # Last.registers

\* C2: a step that returns an error leaves every register, every memory cell and
\* both serial queues as they were
C2_NoWriteOnError ==
  [][(steps' = steps + 1 /\ IsErr(trace'[Len(trace')].res))
       => (/\ registers' = registers
           /\ memory' = memory
           /\ input_queue' = input_queue
           /\ output_queue' = output_queue)]_vars

\* C3: a step that follows a failed step, with no host call in between, returns
\* the same error (kind and payload) and finds and leaves PC where it was
C3_SameErrorTwice ==
  \A i \in 1..(Len(trace) - 1) :
    IsErr(trace[i].res) =>
      /\ trace[i + 1].res = trace[i].res
      /\ trace[i + 1].registers[ProgramCounter] = trace[i].registers[ProgramCounter]
      /\ (i + 1 = Len(trace) => registers[ProgramCounter] = trace[i].registers[ProgramCounter])

\* the value the target register r holds when it is assigned to PC
TargetValue(r) == IF r = ProgramCounter THEN PrePC ELSE registers[r]

\* C4: after a successful jmp r, a successful call r and a taken jz/jgz, PC is
\* exactly the value of the target register
C4_AbsoluteJumpLandsOnTarget ==
  LastOk =>
    /\ (IsOneReg(Last.inst, 1) \/ IsOneReg(Last.inst, 5))
         => registers[ProgramCounter] = TargetValue(Arg2(Last.inst))
    /\ (IsTwoReg(Last.inst, 6) /\ Last.registers[Arg1(Last.inst)] = 0)
         => registers[ProgramCounter] = TargetValue(Arg2(Last.inst))
    /\ (IsTwoReg(Last.inst, 8) /\ Last.registers[Arg1(Last.inst)] \in 1..(HalfWord - 1))
         => registers[ProgramCounter] = TargetValue(Arg2(Last.inst))

\* the sign extension of an 8-bit pattern
SignExtend8(b) == IF b < 128 THEN b ELSE b - 256

\* the condition of a conditional jump on the word b held by reg_b
JumpCondition(k, b) ==
  \/ k \in {6, 7} /\ b = 0
  \/ k \in {8, 9} /\ b >= 1 /\ b <= HalfWord - 1

IsCondJump(inst) == \E k \in 6..9 : IsTwoReg(inst, k)

TakenJump(inst, regs) == IsCondJump(inst) /\ JumpCondition(Arg0(inst), regs[Arg1(inst)])

\* the register an instruction stores its result in, -1 if it stores in none
DestinationOf(inst) ==
  IF IsTwoReg(inst, 2) \/ IsOneReg(inst, 4) \/ Opcode(inst) \in 1..13
  THEN Arg2(inst) ELSE -1

\* instructions that assign PC: jumps, call, reset, ret, and a store into register 0
SetsPC(inst, regs) ==
  \/ IsOneReg(inst, 1) \/ IsOneReg(inst, 2) \/ IsOneReg(inst, 5)
  \/ IsZeroArg(inst, 3) \/ IsZeroArg(inst, 5)
  \/ IsTwoReg(inst, 1)
  \/ TakenJump(inst, regs)
  \/ DestinationOf(inst) = ProgramCounter

\* C5: a relative jump adds its signed displacement to PC modulo 2^16, and every
\* other successful instruction that does not set PC advances PC by exactly 1
C5_RelativeAndFallThrough ==
  LastOk =>
    LET inst == Last.inst
        pre == Last.registers
        pc == registers[ProgramCounter]
    IN /\ IsTwoReg(inst, 1)
            => pc = ToWord(PrePC + SignExtend8(Arg1(inst) * 16 + Arg2(inst)))
       /\ IsOneReg(inst, 2) => pc = ToWord(PrePC + ToSigned(pre[Arg2(inst)]))
       /\ (TakenJump(inst, pre) /\ Arg0(inst) \in {7, 9})
            => pc = ToWord(PrePC + ToSigned(pre[Arg2(inst)]))
       /\ ~SetsPC(inst, pre) => pc = ToWord(PrePC + 1)

\* a jmpri with a negative displacement succeeded
C5_Witness ==
  LastOk /\ IsTwoReg(Last.inst, 1) /\ Arg1(Last.inst) >= 8
    /\ registers[ProgramCounter] # ToWord(PrePC + 1)

\* C6: jz/jzr jump exactly when reg_b is 0, jgz/jgzr exactly when reg_b is in
\* 1..0x7FFF; otherwise the step falls through to the next word
C6_JumpTakenIffCondition ==
  (LastOk /\ IsCondJump(Last.inst)) =>
    LET inst == Last.inst
        pre == Last.registers
        pc == registers[ProgramCounter]
        target == pre[Arg2(inst)]
    IN IF JumpCondition(Arg0(inst), pre[Arg1(inst)])
       THEN IF Arg0(inst) \in {7, 9}
            THEN pc = ToWord(PrePC + ToSigned(target))
            ELSE pc \in {target, ToWord(target + 1)}
       ELSE pc = ToWord(PrePC + 1)

\* a jgz/jgzr on a word of 0x8000..0xFFFF fell through although its target is elsewhere
C6_Witness ==
  /\ LastOk
  /\ \E k \in {8, 9} : IsTwoReg(Last.inst, k)
  /\ Last.registers[Arg1(Last.inst)] >= HalfWord
  /\ Last.registers[Arg2(Last.inst)] \notin {0, 1}
  /\ registers[ProgramCounter] = ToWord(PrePC + 1)

StackWindow == STACK_POINTER_OFFSET..(STACK_POINTER_OFFSET + STACK_POINTER_MAX_SIZE - 1)

\* C7: a push or call at SP = STACK_MAX fails with stack-overflow; so from reset,
\* with no direct write of SP, SP never exceeds STACK_MAX and every pushed word
\* lies in the stack window, none in a segment or device above it
C7_StackStaysInWindow ==
  /\ registers[StackPointer] <= STACK_POINTER_MAX_SIZE
  /\ (HasLast /\ (IsOneReg(Last.inst, 3) \/ IsOneReg(Last.inst, 5))
        /\ PreSP = STACK_POINTER_MAX_SIZE) => Last.res = StackOverflow
  /\ \A a \in DOMAIN memory : a \in DOMAIN image \/ a \in StackWindow
  /\ output_queue = <<>>

IsPop(inst) == IsZeroArg(inst, 4) \/ IsOneReg(inst, 4) \/ IsZeroArg(inst, 5)

\* C8: pop, popr and ret at SP = 0 fail with stack-overflow, SP stays 0 and no
\* register changes (popr keeps its destination)
C8_PopOnEmptyStack ==
  (HasLast /\ IsPop(Last.inst) /\ PreSP = 0) =>
    /\ Last.res = StackOverflow
    /\ registers[StackPointer] = 0
    /\ registers = Last.registers

\* a popr into a register holding a non-zero value ran on the empty stack
C8_Witness ==
  /\ HasLast /\ IsOneReg(Last.inst, 4) /\ PreSP = 0
  /\ Arg2(Last.inst) \in GeneralPurpose
  /\ Last.registers[Arg2(Last.inst)] # 0

\* the last 2n steps are n pushes of general registers followed by n poprs into
\* pairwise distinct general registers, all successful, from a stack with n free cells
PushPopWindow(n) ==
  LET k == Len(trace) IN
  /\ k >= 2 * n
  /\ \A i \in (k - 2 * n + 1)..k : trace[i].res = Ok
  /\ \A i \in (k - 2 * n + 1)..(k - n) :
       IsOneReg(trace[i].inst, 3) /\ Arg2(trace[i].inst) \in GeneralPurpose
  /\ \A i \in (k - n + 1)..k :
       IsOneReg(trace[i].inst, 4) /\ Arg2(trace[i].inst) \in GeneralPurpose
  /\ \A i, j \in (k - n + 1)..k : i # j => Arg2(trace[i].inst) # Arg2(trace[j].inst)
  /\ trace[k - 2 * n + 1].registers[StackPointer] + n <= STACK_POINTER_MAX_SIZE

\* C9: after push r_1 .. push r_n and popr q_n .. popr q_1 every q_i holds the
\* value r_i had when it was pushed and SP is what it was before the first push;
\* a push followed by pop also restores SP, so `ldi 3,1; push 3; pop` ends at SP = 0
C9_StackRoundTrip ==
  LET k == Len(trace) IN
  /\ \A n \in 1..TraceLen :
       PushPopWindow(n) =>
         /\ registers[StackPointer] = trace[k - 2 * n + 1].registers[StackPointer]
         /\ \A i \in 1..n :
              LET push == trace[k - 2 * n + i]
                  popr == trace[k + 1 - i]
              IN registers[Arg2(popr.inst)] = push.registers[Arg2(push.inst)]
  /\ (k >= 2 /\ LastOk /\ IsZeroArg(Last.inst, 4)
        /\ trace[k - 1].res = Ok /\ IsOneReg(trace[k - 1].inst, 3))
       => registers[StackPointer] = trace[k - 1].registers[StackPointer]
  /\ (k >= 3 /\ LastOk /\ Last.inst = PopWord
        /\ trace[k - 1].res = Ok /\ trace[k - 1].inst = PushWord(3)
        /\ trace[k - 2].res = Ok /\ trace[k - 2].inst = LdiWord(3, 1)
        /\ trace[k - 2].registers[StackPointer] = 0)
       => registers[StackPointer] = 0

\* two different values went through push r3; push r4; popr r3; popr r4
C9_Witness ==
  /\ Len(trace) = 4
  /\ PushPopWindow(2)
  /\ trace[1].inst = PushWord(3) /\ trace[2].inst = PushWord(4)
  /\ trace[3].inst = PoprWord(3) /\ trace[4].inst = PoprWord(4)
  /\ trace[1].registers[3] # trace[1].registers[4]

\* C10: when call r at address A succeeded and the word at its target is ret, then
\* after the ret step every general-purpose register and SP hold their values
\* from before the call and PC = A + 1
C10_CallRetSymmetry ==
  LET k == Len(trace) IN
  (k >= 2 /\ trace[k - 1].res = Ok /\ IsOneReg(trace[k - 1].inst, 5) /\ Last.inst = RetWord)
    => /\ \A r \in GeneralPurpose : registers[r] = trace[k - 1].registers[r]
       /\ registers[StackPointer] = trace[k - 1].registers[StackPointer]
       /\ registers[ProgramCounter] = ToWord(trace[k - 1].registers[ProgramCounter] + 1)

\* C11: step() is total: every call returns success or a typed error; no
\* assertion fails and no arithmetic operation aborts the machine
C11_StepTotal == phase # "aborted" /\ (HasLast => Last.res # Panic)

\* a word whose opcode or sub-op falls into a reserved slot
IsReserved(inst) ==
  /\ inst >= 0
  /\ \/ Opcode(inst) = 0 /\ Arg0(inst) \in 10..15
     \/ Opcode(inst) = 0 /\ Arg0(inst) = 0 /\ Arg1(inst) \in 7..15
     \/ Opcode(inst) = 0 /\ Arg0(inst) = 0 /\ Arg1(inst) = 0 /\ Arg2(inst) \in 6..15
     \/ Opcode(inst) \in {14, 15}

\* C12: a step on a reserved word fails with invalid-instruction and changes no
\* state; in particular it is never a no-op that advances PC
C12_ReservedWordsRejected ==
  [][(steps' = steps + 1 /\ IsReserved(trace'[Len(trace')].inst))
       => (/\ trace'[Len(trace')].res = InvalidInstruction(trace'[Len(trace')].inst)
           /\ registers' = registers
           /\ memory' = memory
           /\ input_queue' = input_queue
           /\ output_queue' = output_queue
           /\ allow_interrupts' = allow_interrupts)]_vars

\* the registers as new(), reset() and soft_reset() leave them
RegistersAtReset ==
  [i \in 0..(NUM_REGISTERS - 1) |-> IF i = ProgramCounter THEN VECTOR_RESET ELSE 0]

\* the serial device's cells for the input count and the output count
SerialCountCells == {4096, 4098}

\* registers, queues and the serial counts right after reset() or new()
AtReset ==
  /\ registers = RegistersAtReset
  /\ input_queue = <<>>
  /\ output_queue = <<>>
  /\ \A a \in SerialCountCells :
       memory_get(segments, Machine, a) = [m |-> Machine, res |-> Ok, val |-> 0]

\* C13: after new() and after every reset() PC is the reset vector, every other
\* register is 0, the serial queues are empty (their counts read 0) and the
\* read-only segment holds what it held before
C13_ResetInvariant ==
  /\ AtReset
  /\ [][(phase = "run" /\ phase' = "new") => (AtReset' /\ segments' = segments)]_vars

\* reset() was called on a machine with non-zero registers, after a program ran,
\* and the read-only segment still holds its words
C13_Witness ==
  /\ phase = "new" /\ HasLast /\ Last.inst = ResetCall /\ steps > 0
  /\ Last.registers[3] # 0 /\ Last.registers[StackPointer] # 0
  /\ memory_get(segments, Machine, 4100).val = 4660

ScenarioOne == <<LdiWord(3, 5), LdiWord(4, 7), AddWord(5, 3, 4), ResetWord>>

\* the first n words of scenario 1 were stepped, in order, from a fresh machine
ScenarioOneRan(n) ==
  /\ Len(trace) = n
  /\ image = At(VECTOR_RESET, ScenarioOne)
  /\ trace[1].registers = RegistersAtReset
  /\ \A i \in 1..n : trace[i].inst = ScenarioOne[i] /\ trace[i].res = Ok

\* C20 as stated: after the four steps of `ldi 3,5; ldi 4,7; add 5,3,4; reset`
\* register 5 holds 12
C20_ScenarioOneLeavesTwelve == ScenarioOneRan(4) => registers[5] = 12

\* C20 amended: register 5 holds 12 after the third step (the add); the fourth
\* step is the soft reset, after which register 5 and every other register is 0
C20_ScenarioOneSumThenReset ==
  /\ ScenarioOneRan(3) => registers[5] = 12 /\ registers[ProgramCounter] = 3
  /\ ScenarioOneRan(4) => registers = RegistersAtReset /\ trace[4].registers[5] = 12

\* all four words of scenario 1 were stepped
C20_Witness == ScenarioOneRan(4) /\ LastOk

IsArith(inst, ops) == inst >= 0 /\ Opcode(inst) \in ops

\* the words val_a and val_b an arithmetic word read, and its destination
ValA == Last.registers[Arg1(Last.inst)]

ValB == Last.registers[Arg0(Last.inst)]

Dest == Arg2(Last.inst)

\* an arithmetic step stored v: in its destination, or, when that is PC, in PC
\* before the post-step increment
Stored(v) ==
  /\ Last.res = Ok
  /\ IF Dest = ProgramCounter
     THEN registers[ProgramCounter] = ToWord(v + 1)
     ELSE registers[Dest] = v /\ registers[ProgramCounter] = ToWord(PrePC + 1)

\* C15: add and sub succeed for all operand pairs and store the result modulo
\* 2^16 (0xFFFF + 1 = 0, 0 - 1 = 0xFFFF), and PC advances by 1
C15_AddSubWrap ==
  /\ (HasLast /\ IsArith(Last.inst, {4})) => Stored((ValA + ValB) % WordSize)
  /\ (HasLast /\ IsArith(Last.inst, {5})) => Stored((ValA - ValB) % WordSize)

\* C16: div and mod with a zero divisor fail with divide-by-zero and mod-by-zero
\* for every dividend and change no register, so PC stays at the word; in
\* `ldi 3,0; ldi 4,5; div 4,3,5` the third step fails so with PC = 2
C16_ZeroDivisor ==
  /\ (HasLast /\ IsArith(Last.inst, {7}) /\ ValB = 0)
       => Last.res = DivideByZero /\ registers = Last.registers
  /\ (HasLast /\ IsArith(Last.inst, {8}) /\ ValB = 0)
       => Last.res = ModByZero /\ registers = Last.registers
  /\ (Len(trace) = 3 /\ image = At(VECTOR_RESET, ScenarioThree)
        /\ trace[1].registers = RegistersAtReset)
       => /\ trace[1].res = Ok /\ trace[2].res = Ok
          /\ Last.inst = DivWord(4, 3, 5) /\ Last.res = DivideByZero
          /\ registers[ProgramCounter] = 2

\* a non-zero dividend was divided by zero into the register that holds it
C16_Witness ==
  /\ HasLast /\ IsArith(Last.inst, {7, 8}) /\ ValB = 0 /\ ValA # 0
  /\ Dest = Arg1(Last.inst) /\ PrePC # VECTOR_RESET

\* C17: mul, div and mod (divisor not 0) succeed on the signed view and store
\* the product, the truncated quotient and the remainder modulo 2^16, also for
\* products outside -32768..32767 and for -32768 / -1
C17_SignedMulDivMod ==
  /\ (HasLast /\ IsArith(Last.inst, {6}))
       => Stored((ToSigned(ValA) * ToSigned(ValB)) % WordSize)
  /\ (HasLast /\ IsArith(Last.inst, {7}) /\ ValB # 0)
       => Stored(TruncDiv(ToSigned(ValA), ToSigned(ValB)) % WordSize)
  /\ (HasLast /\ IsArith(Last.inst, {8}) /\ ValB # 0)
       => Stored(TruncRem(ToSigned(ValA), ToSigned(ValB)) % WordSize)

\* C18: bsftl and bsftr store 0 for a count of 16 or more, and (a << c) mod 2^16
\* and a >> c for a count c < 16
C18_ShiftByCount ==
  /\ (HasLast /\ IsArith(Last.inst, {12}))
       => Stored(IF ValB >= 16 THEN 0 ELSE (ValA * Pow2(ValB)) % WordSize)
  /\ (HasLast /\ IsArith(Last.inst, {13}))
       => Stored(IF ValB >= 16 THEN 0 ELSE ValA \div Pow2(ValB))

\* the 8-bit pattern of an immediate load
ImmediateByte(inst) == Arg0(inst) * 16 + Arg1(inst)

\* C19: ldi stores the sign extension of its 8-bit pattern b (b, or b + 0xFF00
\* from 128 on) and ldui the pattern itself in register arg2, for every pattern;
\* no register other than arg2 and PC changes
C19_ImmediateLoads ==
  (HasLast /\ IsArith(Last.inst, {1, 2})) =>
    /\ Stored(IF Opcode(Last.inst) = 1 /\ ImmediateByte(Last.inst) >= 128
              THEN ImmediateByte(Last.inst) + 65280
              ELSE ImmediateByte(Last.inst))
    /\ \A r \in 1..(NUM_REGISTERS - 1) : r # Dest => registers[r] = Last.registers[r]

\* ldi of a negative pattern into r3, next to a register that holds a value
C19_Witness ==
  /\ LastOk /\ IsArith(Last.inst, {1}) /\ ImmediateByte(Last.inst) = 128 /\ Dest = 3
  /\ registers[3] = 65408 /\ registers[4] # 0

HostCall(call, addr) ==
  /\ steps' = steps /\ trace' # trace /\ trace' # <<>>
  /\ trace'[1].inst = call /\ trace'[1].addr = addr

\* the CPU step recorded by this step ran ld with the source register holding addr
CpuLoadFrom(addr) ==
  /\ steps' = steps + 1
  /\ IsTwoReg(trace'[Len(trace')].inst, 2)
  /\ registers[Arg1(trace'[Len(trace')].inst)] = addr

SerialInputCount == 4096

SerialInputGet == 4097

SerialOutputCount == 4098

SerialOutputSet == 4099

\* what a read of the serial input cell does to the queue, given the value read
InputTaken(val) ==
  /\ trace'[Len(trace')].res = Ok
  /\ IF input_queue = <<>>
     THEN val = 0 /\ input_queue' = <<>>
     ELSE val = Head(input_queue) /\ input_queue' = Tail(input_queue)
  /\ memory_inspect(segments', Machine', SerialInputCount).val =
       (IF input_queue = <<>> THEN 0 ELSE Len(input_queue) - 1)
  /\ output_queue' = output_queue

\* C22: the serial input is a FIFO: the host's characters join at the tail, a read
\* of offset 1 (by the host or by ld) returns the oldest character's code and lowers
\* the count at offset 0 by one, and on an empty queue it reads 0 and the count stays 0
C22_SerialInputFifo ==
  [][/\ (Len(input_queue') > Len(input_queue))
         => (\E c \in DeviceChars : input_queue' = Append(input_queue, c))
     /\ HostCall(GetCall, SerialInputCount)
         => (trace'[1].val = Len(input_queue) /\ input_queue' = input_queue)
     /\ HostCall(GetCall, SerialInputGet) => InputTaken(trace'[1].val)
     /\ CpuLoadFrom(SerialInputGet)
         => (/\ InputTaken(registers'[Arg2(trace'[Len(trace')].inst)])
             /\ IF Arg2(trace'[Len(trace')].inst) = ProgramCounter
                THEN TRUE
                ELSE registers'[ProgramCounter] = ToWord(registers[ProgramCounter] + 1))]_vars

\* ld r3, r4 with r4 = 0x1001 took 'A' ahead of the 'B' injected after it, and the
\* next ld took the 'B'
C22_Witness ==
  /\ Len(trace) = 2 /\ steps = 2
  /\ trace[1].inst = LdWord(3, 4) /\ trace[1].res = Ok /\ trace[1].registers[4] = SerialInputGet
  /\ trace[2].inst = LdWord(5, 4) /\ trace[2].res = Ok
  /\ registers[3] = 65 /\ registers[5] = 66 /\ input_queue = <<>>

\* the CPU step recorded by this step ran sav with the address register holding addr
CpuSaveTo(addr) ==
  /\ steps' = steps + 1
  /\ IsTwoReg(trace'[Len(trace')].inst, 3)
  /\ registers[Arg2(trace'[Len(trace')].inst)] = addr

\* what a write of the word data to the serial output cell does
OutputAppended(data) ==
  /\ trace'[Len(trace')].res = Ok
  /\ output_queue' = Append(output_queue, data % 256)
  /\ memory_inspect(segments', Machine', SerialOutputCount).val =
       memory_inspect(segments, Machine, SerialOutputCount).val + 1
  /\ input_queue' = input_queue

\* C23: a write to serial offset 3 (by the host or by sav) succeeds, appends the low
\* byte of the word at the tail of the output queue and raises the count at offset 2
\* by one; a write to offset 0, 1 or 2 fails with invalid-write and changes no queue
C23_SerialWrites ==
  [][/\ HostCall(SetCall, SerialOutputSet) => OutputAppended(trace'[1].data)
     /\ CpuSaveTo(SerialOutputSet)
         => OutputAppended(registers[Arg1(trace'[Len(trace')].inst)])
     /\ (\E a \in {SerialInputCount, SerialInputGet, SerialOutputCount} : HostCall(SetCall, a))
         => (/\ trace'[1].res.kind = "InvalidMemoryWrite"
             /\ output_queue' = output_queue
             /\ input_queue' = input_queue)]_vars

\* the host wrote 0x0141 to offset 3 after a 'B' was already pending as output
C23_Witness ==
  /\ trace # <<>> /\ trace[1].inst = SetCall /\ trace[1].addr = SerialOutputSet
  /\ trace[1].data = 321 /\ trace[1].res = Ok
  /\ output_queue = <<66, 65>>

\* the step changed nothing the devices, the memory or the CPU hold
StateKept ==
  /\ segments' = segments
  /\ registers' = registers
  /\ memory' = memory
  /\ input_queue' = input_queue
  /\ output_queue' = output_queue
  /\ allow_interrupts' = allow_interrupts

\* the serial cells whose read takes nothing from a queue
SerialPlainCells == {SerialInputCount, SerialOutputCount, SerialOutputSet}

\* C24: of all reads only a get of serial offset 1 changes state: gets of offsets 0,
\* 2 and 3 (by the host or by ld) keep both queues and offset 3 reads 0; an inspect of
\* any address, on the memory map or on the read-only segment, changes no state and
\* returns the value a get would return, so the next inspect returns it again
C24_OnlyInputGetHasEffect ==
  [][/\ (\E a \in SerialPlainCells : HostCall(GetCall, a))
         => (StateKept /\ trace'[1].res = Ok
             /\ (trace'[1].addr = SerialOutputSet => trace'[1].val = 0))
     /\ (\E a \in SerialPlainCells : CpuLoadFrom(a))
         => (input_queue' = input_queue /\ output_queue' = output_queue
             /\ memory' = memory /\ segments' = segments)
     /\ (\E a \in DeviceAddrs : HostCall(InspectCall, a))
         => (/\ StateKept
             /\ trace'[1].res = memory_get(segments, Machine, trace'[1].addr).res
             /\ trace'[1].val = memory_get(segments, Machine, trace'[1].addr).val
             /\ trace'[1].val = memory_inspect(segments', Machine', trace'[1].addr).val)
     /\ (\E o \in RoOffsets : HostCall(RoInspectCall, o))
         => (/\ StateKept
             /\ trace'[1].res = ro_get(segments[RoIndex], trace'[1].addr).res
             /\ trace'[1].val = ro_get(segments[RoIndex], trace'[1].addr).val
             /\ trace'[1].val = ro_inspect(segments'[RoIndex], trace'[1].addr).val)]_vars

\* an inspect of offset 1 showed the pending 'A' and left it pending
C24_Witness ==
  /\ trace # <<>> /\ trace[1].inst = InspectCall /\ trace[1].addr = SerialInputGet
  /\ trace[1].val = 65 /\ trace[1].res = Ok
  /\ input_queue = <<65, 66>>

\* every in-range get of the read-only segment returns the word it was built with
RoHoldsConstructed ==
  \A o \in DOMAIN RomData : ro_get(segments[RoIndex], o) = [res |-> Ok, val |-> RomData[o]]

\* the address of the first word of the read-only segment
RoBase == HoleLayout[RoIndex].base

\* C25: a read-only segment refuses every write: set returns an error for every
\* offset and word and changes nothing, also when the write comes through the
\* memory map or from sav, and after any calls of set, get, inspect and reset an
\* in-range get returns the word the segment was constructed with
C25_ReadOnlyRefusesWrites ==
  /\ RoHoldsConstructed
  /\ [][/\ RoHoldsConstructed'
        /\ (\E o \in RoOffsets : HostCall(RoSetCall, o))
            => (IsErr(trace'[1].res) /\ StateKept)
        /\ (\E o \in DOMAIN RomData : HostCall(SetCall, RoBase + o))
            => (IsErr(trace'[1].res) /\ StateKept)
        /\ (\E o \in DOMAIN RomData : CpuSaveTo(RoBase + o))
            => (IsErr(trace'[Len(trace')].res) /\ StateKept)
        /\ (\E o \in DOMAIN RomData : HostCall(RoGetCall, o))
            => (trace'[1].res = Ok /\ trace'[1].val = RomData[trace'[1].addr])]_vars

\* set(0, 0x0141) on the read-only segment was refused and offset 0 still reads 0x1234
C25_Witness ==
  /\ trace # <<>> /\ trace[1].inst = RoSetCall /\ trace[1].addr = 0 /\ trace[1].data = 321
  /\ trace[1].res = InvalidMemoryWrite(0)
  /\ ro_get(segments[RoIndex], 0).val = 4660

\* lengths and offsets on which within is compared with i < n
RoLengths == 0..3

RoProbes == {0, 1, 2, 3, 4, 65535}

\* C26: for a read-only segment of length n within(i) holds exactly when i < n, and
\* get(i) succeeds exactly when within(i) holds; get(n) and above return
\* invalid-access
C26_ReadOnlyWithin ==
  /\ [](\A n \in RoLengths, i \in RoProbes :
          /\ (ro_within(RoSegment(0, n, NoCells), i) <=> i < n)
          /\ ((ro_get(RoSegment(0, n, NoCells), i).res = Ok) <=> i < n))
  /\ [][(\E o \in RoOffsets : HostCall(RoGetCall, o))
          => (/\ ((trace'[1].res = Ok) <=> ro_within(segments[RoIndex], trace'[1].addr))
              /\ ((trace'[1].res = Ok) <=> (trace'[1].addr < segments[RoIndex].len))
              /\ (trace'[1].res # Ok => trace'[1].res = InvalidMemoryAccess(trace'[1].addr))
              /\ StateKept)]_vars

\* get(n) on the segment of n = 2 words returned invalid-access
C26_Witness ==
  /\ trace # <<>> /\ trace[1].inst = RoGetCall /\ trace[1].addr = segments[RoIndex].len
  /\ trace[1].res = InvalidMemoryAccess(2)

\* the map's segments that answer the address
Answering(a) == {i \in 1..Len(segments) : within(segments[i], a)}

\* the addresses the registered segments can reach
MapAddresses == 0..11

\* the segment the registration recorded by this step tried to add
Registered(seg) ==
  /\ steps' = steps /\ trace' # trace /\ trace' # <<>> /\ trace'[1].inst = AddCall
  /\ seg.base = trace'[1].addr /\ seg.len = trace'[1].data

\* C27: whatever registrations were tried, no two registered segments overlap and at
\* most one segment answers any address; a registration that overlaps a registered
\* segment fails and leaves the map as it was
C27_MapNeverOverlaps ==
  /\ [](/\ \A i, j \in 1..Len(segments) : i # j => ~overlaps(segments[i], segments[j])
        /\ \A a \in MapAddresses : Cardinality(Answering(a)) <= 1)
  /\ [][\A seg \in MapCandidates :
          (Registered(seg) /\ \E i \in 1..Len(segments) : overlaps(segments[i], seg))
            => (trace'[1].res = RegistrationFailed /\ segments' = segments)]_vars

\* with [0, 2) and [2, 6) registered, adjacent, the registration of [4, 8) failed
C27_Witness ==
  /\ Len(segments) = 2
  /\ segments[1].base = 0 /\ segments[1].len = 2
  /\ segments[2].base = 2 /\ segments[2].len = 4
  /\ trace # <<>> /\ trace[1].inst = AddCall /\ trace[1].addr = 4 /\ trace[1].data = 4
  /\ trace[1].res = RegistrationFailed

\* addresses of the device layout no segment covers: in the hole between the
\* serial device and the read-only segment, and above the read-only segment
HoleAddrs == {4100}

BeyondAddrs == {4106, 65535}

RoAddrs == {RoBase, RoBase + 1}

\* C28: a read (by the host or by ld) at an address no segment covers, in a hole or
\* beyond the highest segment, fails with invalid-access; a write (by the host or by
\* sav) to a read-only segment or to an unmapped address fails with invalid-write;
\* neither changes any state
C28_SegmentDispatch ==
  [][/\ (\E a \in HoleAddrs \cup BeyondAddrs : HostCall(GetCall, a))
         => (trace'[1].res.kind = "InvalidMemoryAccess" /\ StateKept)
     /\ (\E a \in HoleAddrs \cup BeyondAddrs : CpuLoadFrom(a))
         => (trace'[Len(trace')].res.kind = "InvalidMemoryAccess" /\ StateKept)
     /\ (\E a \in HoleAddrs \cup BeyondAddrs \cup RoAddrs : HostCall(SetCall, a))
         => (trace'[1].res.kind = "InvalidMemoryWrite" /\ StateKept)
     /\ (\E a \in HoleAddrs \cup BeyondAddrs \cup RoAddrs : CpuSaveTo(a))
         => (trace'[Len(trace')].res.kind = "InvalidMemoryWrite" /\ StateKept)]_vars

\* ld from the hole between the serial device and the read-only segment failed
\* with invalid-access and the registers are as they were
C28_Witness ==
  /\ Len(trace) = 1 /\ steps = 1 /\ trace[1].inst = LdWord(3, 4)
  /\ trace[1].registers[4] \in HoleAddrs
  /\ trace[1].res.kind = "InvalidMemoryAccess"
  /\ registers = trace[1].registers

\* C29: the raw binary output is little-endian and round-trips: a word w is written
\* as the bytes w mod 256 and w div 256, and byte0 + 256 * byte1 gives w back
C29_BinaryRoundTrip ==
  (trace # <<>> /\ trace[1].inst = EmitCall)
    => (/\ trace[1].val = <<trace[1].data % 256, trace[1].data \div 256>>
        /\ trace[1].val[1] + 256 * trace[1].val[2] = trace[1].data)

\* the word call pushes for register i: PC, the stack pointer after the first
\* push, and the general-purpose registers as they were
PushedFor(i) ==
  IF i = ProgramCounter THEN PrePC
  ELSE IF i = StackPointer THEN ToWord(PreSP + 1)
  ELSE Last.registers[i]

\* the stack cell written by the n-th push of a step that started at PreSP
PushCell(n) == STACK_POINTER_OFFSET + ToWord(PreSP + n) - 1

\* a successful call pushed registers 0..15 in ascending order, SP grew by 16 and
\* PC is the value of the target register when the pushes were done
CallPushedSixteen ==
  (LastOk /\ IsOneReg(Last.inst, 5))
    => (/\ registers[StackPointer] = ToWord(PreSP + NUM_REGISTERS)
        /\ \A i \in 0..(NUM_REGISTERS - 1) : CellGet(memory, PushCell(i + 1)) = PushedFor(i)
        /\ registers[ProgramCounter] =
             (IF Arg2(Last.inst) = StackPointer THEN ToWord(PreSP + NUM_REGISTERS)
              ELSE Last.registers[Arg2(Last.inst)]))

\* a successful ret popped sixteen words into registers 15 down to 0 and SP shrank
\* by 16
RetPoppedSixteen ==
  (LastOk /\ Last.inst = RetWord)
    => (/\ registers[StackPointer] = ToWord(PreSP - NUM_REGISTERS)
        /\ \A i \in GeneralPurpose :
             registers[i] = CellGet(memory, STACK_POINTER_OFFSET + PreSP - NUM_REGISTERS + i))

\* C30: a successful call performs 16 pushes, of registers 0..15 in ascending
\* order, so SP grows by 16, and then PC is the target; a successful ret performs
\* 16 pops into registers 15 down to 0, so SP shrinks by 16
C30_CallRetSixteen == CallPushedSixteen /\ RetPoppedSixteen

\* some segment of the map covers the address
Mapped(a) == \E i \in 1..Len(segments) : within(segments[i], a)

\* the address ldir reads: the address it was fetched from plus its signed immediate
LdirAddress == PrePC + SignExtend8(ImmediateByte(Last.inst))

\* what C31 says of an ldir step that read from a mapped, or an unmapped, address
LdirLoaded ==
  IF Mapped(LdirAddress)
  THEN Stored(CellGet(memory, LdirAddress))
  ELSE Last.res.kind = "InvalidMemoryAccess" /\ registers = Last.registers

\* C31: ldir at address A with signed immediate imm loads the word at A + imm (A
\* the address of the ldir itself, not A + 1) into register arg2; when A + imm is
\* unmapped the step fails with invalid-access and no register changes
C31_LdirFromOwnAddress == (HasLast /\ IsArith(Last.inst, {3})) => LdirLoaded

\* the address the first of two steps was fetched from
FirstPC == trace[1].registers[ProgramCounter]

\* the word literal sequence lies at the address the run started from, and two
\* steps were made
LiteralStepped ==
  /\ steps = 2 /\ Len(trace) = 2
  /\ FirstPC + 2 < WordSize
  /\ CellGet(image, FirstPC) = JmpriWord(2)
  /\ IsArith(CellGet(image, FirstPC + 2), {3})
  /\ ImmediateByte(CellGet(image, FirstPC + 2)) = 255

\* C32: the sequence jmpri 2, .load v, ldir reg, -1 at address A, stepped twice,
\* leaves reg = v and PC = A + 3, and the data word at A + 1 is never fetched as an
\* instruction
C32_WordLiteralLoads ==
  LiteralStepped
    => (/\ trace[1].res = Ok /\ trace[2].res = Ok
        /\ registers[Arg2(CellGet(image, FirstPC + 2))] = CellGet(image, FirstPC + 1)
        /\ registers[ProgramCounter] = ToWord(FirstPC + 3)
        /\ \A i \in 1..2 : trace[i].registers[ProgramCounter] # FirstPC + 1
        /\ trace[2].inst = CellGet(image, FirstPC + 2))

\* the literal 0x0005, the word of ret, was loaded into r15 by the sequence in the
\* last three words of the address space, and PC wrapped to 0
C32_Witness ==
  /\ LiteralStepped /\ FirstPC = 65533
  /\ CellGet(image, 65534) = RetWord
  /\ registers[15] = RetWord /\ registers[ProgramCounter] = 0

\* a step that executed noop, inton or intoff
SwitchStep ==
  /\ steps' = steps + 1
  /\ \E k \in 0..2 : IsZeroArg(trace'[Len(trace')].inst, k)

\* the step succeeded and changed PC by one and nothing else but the input queue
SwitchFrame ==
  /\ trace'[Len(trace')].res = Ok
  /\ registers' = [registers EXCEPT ![ProgramCounter] = ToWord(@ + 1)]
  /\ memory' = memory
  /\ segments' = segments
  /\ output_queue' = output_queue

\* the fetch at PC is a read of the serial input cell with a character pending
FetchPops ==
  /\ input_queue # <<>>
  /\ \E i \in 1..Len(segments) :
       /\ segments[i].kind = "serial"
       /\ registers[ProgramCounter] = segments[i].base + 1

\* C33 as stated: noop, inton and intoff always succeed and change nothing but PC,
\* which advances by 1: every other register, SP, all memory cells and both device
\* queues are unchanged
C33_SwitchesChangeOnlyPc ==
  [][SwitchStep => (SwitchFrame /\ input_queue' = input_queue)]_vars

\* C33 amended: noop, inton and intoff always succeed and change nothing but PC, which
\* advances by 1 (wrapping at 0xFFFF): every other register, SP, all memory cells and
\* the output queue are unchanged, and the input queue is unchanged unless the
\* instruction word was fetched from the serial input cell with a character pending,
\* where the fetch took that character, whose code is the instruction word
C33_SwitchesChangeOnlyPcOffInput ==
  [][SwitchStep
       => (/\ SwitchFrame
           /\ IF FetchPops
              THEN /\ input_queue' = Tail(input_queue)
                   /\ trace'[Len(trace')].inst = Head(input_queue)
              ELSE input_queue' = input_queue)]_vars

\* inton was fetched from the serial input cell: the SOH that was pending is gone, the
\* 'A' behind it is left, and PC moved on to the next cell
C33_Witness ==
  /\ LastOk /\ Last.inst = IntonWord
  /\ PrePC = SerialInputGet
  /\ input_queue = <<65>>
  /\ registers = [Last.registers EXCEPT ![ProgramCounter] = SerialOutputCount]

\* what a step leaves for an observer: the result, the registers, the memory
\* contents and the device queues
Outcome(res, regs, mem, input, output) ==
  [res |-> res, registers |-> regs, memory |-> mem, input_queue |-> input,
   output_queue |-> output]

OutcomeOf(s) == Outcome(s.res, s.m.registers, s.m.memory, s.m.input_queue, s.m.output_queue)

\* a second machine of the same build on an equal memory map, with registers, memory
\* contents and device queues equal to this machine's and the interrupt flag at f
Twin(f) == [Machine EXCEPT !.allow_interrupts = f]

\* C34: step() is deterministic: a second machine with equal registers, equal memory
\* contents and equal device queues, whatever its interrupt-enable flag, produces
\* after one step() the result, registers, memory and device queues this machine
\* produces
C34_StepDeterministic ==
  [][steps' = steps + 1
       => \A f \in BOOLEAN :
            OutcomeOf(step(segments, build, Twin(f)))
              = Outcome(trace'[Len(trace')].res, registers', memory', input_queue',
                        output_queue')]_vars

\* int ran with interrupts switched off by the intoff before it, and failed as it
\* fails on the twin with interrupts on
C34_Witness ==
  /\ Len(trace) = 2 /\ ~allow_interrupts
  /\ trace[1].inst = IntoffWord /\ trace[1].res = Ok
  /\ IsOneReg(trace[2].inst, 6) /\ trace[2].res = InterruptsNotSupported
  /\ OutcomeOf(step(segments, build, Twin(TRUE))) = OutcomeOf(step(segments, build, Twin(FALSE)))

====
